---- MODULE Spec2Model ----
(***************************************************************************)
(* Paper2video: the job pipeline orchestrator (JobProcessor.process_job),  *)
(* the job routes that schedule it (start_job, retry_job) and the job      *)
(* store they share.                                                       *)
(*                                                                         *)
(* Texts (status messages, diagnostics, paths) are strings; the empty      *)
(* string is Python's "" and None is Python's None.  Lists are sequences;  *)
(* a nullable list column is NoList or <<list>>.                           *)
(***************************************************************************)
EXTENDS Integers, Sequences, FiniteSets, TLC

\* ------------------------------------------------------------------ bounds
\* background runs ever scheduled
MaxRuns == 2
\* slides a script may hold
MaxSlides == 2
\* seconds the probe reports for an audio file when it works, and seconds the
\* speech synthesis estimated for it from its word count
ProbedSeconds == 12
EstimatedSeconds == 7

\* ------------------------------------------------------------- job model
PENDING == "pending"
PARSING == "parsing"
GENERATING_SCRIPT == "generating_script"
GENERATING_SLIDES == "generating_slides"
GENERATING_AUDIO == "generating_audio"
COMPOSING_VIDEO == "composing_video"
COMPLETED == "completed"
FAILED == "failed"

JobStatus ==
    <<PENDING, PARSING, GENERATING_SCRIPT, GENERATING_SLIDES, GENERATING_AUDIO,
      COMPOSING_VIDEO, COMPLETED, FAILED>>

AvatarOption == {"none", "svg", "realistic"}

\* Python's None in a text column, and in a list column
None == "<None>"
NoList == <<>>
\* Python's None where an int is expected
NoInt == -1
Some(list) == <<list>>

JobIds == {"j1", "j2"}
RunIds == 1..MaxRuns

VARIABLES
    store,      \* the jobs table: job id -> row, for the rows that exist
    runs,       \* the background tasks: run id -> the frame of run_job_processing
    resp,       \* the response to the last request handled
    call        \* a service function called on its own: its arguments and effects

vars == <<store, runs, resp, call>>

\* The row upload_file inserts.
NewJob(avatar) ==
    [ avatar_option   |-> avatar,
      status          |-> PENDING,
      progress        |-> 0,
      status_message  |-> "Job created, waiting to start...",
      error_message   |-> None,
      extracted       |-> NoList,
      slide_script    |-> NoList,
      slide_images    |-> NoList,
      video_path      |-> None,
      video_duration  |-> NoInt,
      completed_at    |-> None ]

\* What process_job returns, and what the composer returns (dict.get gives None
\* for a key that is absent).
NoResult ==
    [ success |-> FALSE, error |-> None, video_path |-> None,
      duration |-> NoInt, slide_count |-> NoInt ]

\* A background task that was never scheduled.
NoRun ==
    [ job |-> "j1", pc |-> "none", avatar_option |-> None,
      slides |-> <<>>, slide_images |-> <<>>, synth |-> <<>>, audio_files |-> <<>>,
      video_result |-> NoResult,
      writes |-> <<>>, updates |-> <<>>, calls |-> <<>>, files |-> {},
      result |-> NoResult ]

\* No service function is called on its own.
NoCall == [fn |-> None, pc |-> "none"]

\* **kwargs of a call that passes none
NoKwargs == [f \in {} |-> None]

Truthy(text) == text # None /\ text # ""

\* ------------------------------------------------------------- job store
\* UpdateJobStatus without the WHERE clause: the status goes to every row
UpdateJobStatusAllRows(st, job_id, status, progress, message, error, kwargs) ==
    [j \in DOMAIN st |-> [st[j] EXCEPT !.status = status]]

\* UpdateJobStatus that inserts the row when the job has none
UpdateJobStatusUpsert(st, job_id, status, progress, message, error, kwargs) ==
    [j \in DOMAIN st \cup {job_id} |->
        IF j = job_id
        THEN [(IF j \in DOMAIN st THEN st[j] ELSE NewJob("none"))
                 EXCEPT !.status = status, !.progress = progress]
        ELSE st[j]]

\* UpdateJobStatus that writes the error argument also when none was passed
UpdateJobStatusClearsError(st, job_id, status, progress, message, error, kwargs) ==
    IF job_id \notin DOMAIN st THEN st
    ELSE [st EXCEPT ![job_id].status = status, ![job_id].error_message = error]

\* JobProcessor.update_job_status: one UPDATE ... WHERE id = job_id, committed.
UpdateJobStatus(st, job_id, status, progress, message, error, kwargs) ==
    IF job_id \notin DOMAIN st THEN st
    ELSE
      LET row == st[job_id]
          set == {"status"}
                   \cup (IF progress # NoInt THEN {"progress"} ELSE {})
                   \cup (IF Truthy(message) THEN {"status_message"} ELSE {})
                   \cup (IF Truthy(error) THEN {"error_message"} ELSE {})
          update_data == [f \in set |->
                            CASE f = "status" -> status
                              [] f = "progress" -> progress
                              [] f = "status_message" -> message
                              [] f = "error_message" -> error]
          value(f) == IF f \in DOMAIN kwargs THEN kwargs[f]
                      ELSE IF f \in set THEN update_data[f]
                      ELSE row[f]
      IN [st EXCEPT ![job_id] = [f \in DOMAIN row |-> value(f)]]

\* JobProcessor.get_job
GetJob(st, job_id) == IF job_id \in DOMAIN st THEN Some(st[job_id]) ELSE NoList

\* ---------------------------------------------------------- script generator
\* A slide is modelled by the length of its narration.
Slide(chars) == [narration |-> chars]

\* "This slide covers <title>. " is never shorter than this
CoverChars == 20
\* _generate_fallback_slides: the title slide and five section slides
FallbackSlideCount == 6
\* "Welcome to this presentation about <title>." is never shorter than this
IntroChars == 36

\* SlideGenerator._parse_json_response: the value json.loads gives, or [] when
\* the text holds no JSON.  response.json says what the text holds: "array" (an
\* array of objects), "object" (any other JSON value that is not empty) or "none".
ParseJsonResponse(response) ==
    IF response.json = "none"
    THEN [json |-> "array", slides |-> <<>>]
    ELSE [json |-> response.json, slides |-> response.slides]

\* SlideGenerator._validate_slides: an empty narration is replaced by a sentence
\* made of the title; a value that is not a list of objects makes slide.get raise.
ValidateSlides(parsed) ==
    IF parsed.json # "array"
    THEN [kind |-> "raise", slides |-> <<>>]
    ELSE [kind |-> "return",
          slides |-> [i \in DOMAIN parsed.slides |->
                        IF parsed.slides[i].narration = 0
                        THEN Slide(CoverChars)
                        ELSE parsed.slides[i]]]

\* SlideGenerator._generate_fallback_slides
GenerateFallbackSlides == [i \in 1..FallbackSlideCount |-> Slide(IntroChars)]

\* SlideGenerator.generate_slide_script, after the prompt is built: response.model
\* says whether the model call returned a text.
GenerateSlideScript(response) ==
    IF response.model = "raise"
    THEN GenerateFallbackSlides
    ELSE LET validated == ValidateSlides(ParseJsonResponse(response))
         IN IF validated.kind = "raise"
            THEN GenerateFallbackSlides
            ELSE validated.slides

\* --------------------------------------------------------- speech synthesis
\* A narration is modelled by the length of its cleaned text.
MinTtsChars == 5
SlideAudioPath(i) == "audio/slide_" \o ToString(i) \o ".mp3"
IntroPath == "audio/intro.mp3"

\* TTSGenerator.generate_audio; engine is what edge-tts, then macOS say, achieve.
GenerateAudio(chars, output_path, engine) ==
    IF chars < MinTtsChars
    THEN [success |-> TRUE, path |-> None, skipped |-> TRUE]
    ELSE IF engine = "ok"
         THEN [success |-> TRUE, path |-> output_path, skipped |-> FALSE]
         ELSE [success |-> FALSE, path |-> None, skipped |-> FALSE]

\* SlideAudioUpTo that numbers a clip by its position in the list it returns
RECURSIVE SlideAudioByPosition(_, _, _)
SlideAudioByPosition(slides, voiced, i) ==
    IF i = 0 THEN <<>>
    ELSE
      LET before == SlideAudioByPosition(slides, voiced, i - 1)
      IN IF slides[i].narration >= MinTtsChars /\ i \in voiced
         THEN Append(before, [slide_number |-> Len(before) + 1,
                              path |-> SlideAudioPath(i)])
         ELSE before

\* The loop of TTSGenerator.generate_slide_audio over slides[1..i]; voiced is the
\* set of slide positions for which the speech engine works.
RECURSIVE SlideAudioUpTo(_, _, _)
SlideAudioUpTo(slides, voiced, i) ==
    IF i = 0 THEN <<>>
    ELSE
      LET before == SlideAudioUpTo(slides, voiced, i - 1)
          narration == slides[i].narration
          result == GenerateAudio(narration, SlideAudioPath(i),
                                  IF i \in voiced THEN "ok" ELSE "fail")
      IN IF narration = 0 THEN before
         ELSE IF result.success /\ ~result.skipped
              THEN Append(before, [slide_number |-> i, path |-> SlideAudioPath(i)])
              ELSE before

\* TTSGenerator.generate_slide_audio
GenerateSlideAudio(slides, voiced) ==
    [ success |-> TRUE, audio_files |-> SlideAudioUpTo(slides, voiced, Len(slides)) ]

\* WithFallback that puts the placeholder in place of the clips it was given
WithFallbackAlways(audio_files, intro_result) ==
    IF intro_result.success
    THEN << [slide_number |-> 1, path |-> IntroPath] >>
    ELSE audio_files

\* process_job, audio step: the placeholder clip when no slide got audio.
WithFallback(audio_files, intro_result) ==
    IF audio_files = <<>>
    THEN IF intro_result.success
         THEN << [slide_number |-> 1, path |-> IntroPath] >>
         ELSE audio_files
    ELSE audio_files

\* ------------------------------------------------------------ video composer
SlideImagePath(i) == "slides/slide_" \o ToString(i) \o ".png"
VideoPath == "presentation.mp4"
AvatarVideoPath == "presentation_with_avatar.mp4"
\* _get_audio_duration's answer when the probe fails
DefaultDuration == 30

MaxOf(S) == CHOOSE x \in S : \A y \in S : y <= x

\* AudioMap that keeps the first clip of a slide_number
AudioMapFirstWins(audio_files) ==
    LET keys == {audio_files[x].slide_number : x \in DOMAIN audio_files}
    IN [k \in keys |->
          audio_files[CHOOSE x \in DOMAIN audio_files :
                         /\ audio_files[x].slide_number = k
                         /\ \A y \in DOMAIN audio_files :
                               audio_files[y].slide_number = k => x <= y]]

\* AudioMap that takes the position of a clip in the list for its slide
AudioMapByPosition(audio_files) == [x \in DOMAIN audio_files |-> audio_files[x]]

\* create_slideshow_video: audio_map, slide_number -> the last clip that has it
AudioMap(audio_files) ==
    LET keys == {audio_files[x].slide_number : x \in DOMAIN audio_files}
    IN [k \in keys |->
          audio_files[MaxOf({x \in DOMAIN audio_files : audio_files[x].slide_number = k})]]

\* SlideVideosUpTo that puts the segment of a slide before those of the slides
\* before it
RECURSIVE SlideVideosNewestFirst(_, _, _, _)
SlideVideosNewestFirst(slide_images, audio_map, env, i) ==
    IF i = 0 THEN <<>>
    ELSE IF i \in env.silent_enc
         THEN << [slide |-> i, audio |-> None] >>
                \o SlideVideosNewestFirst(slide_images, audio_map, env, i - 1)
         ELSE SlideVideosNewestFirst(slide_images, audio_map, env, i - 1)

\* create_slide_video after the checks of its inputs: the tool must exit with 0
\* and the output file must exist
AudioEncoded(env, i) == i \in env.audio_enc /\ i \notin env.lost

\* create_slide_video_no_audio: the tool must exit with 0
SilentEncoded(env, i) == i \in env.silent_enc

\* create_slideshow_video: the per-slide loop over slide_images[1..i].  env.files
\* are the audio files that exist and are not empty, env.audio_enc and
\* env.silent_enc the slides whose audio-backed and silent encode exit with 0,
\* env.lost the slides for which an encode that exits with 0 leaves no file.
RECURSIVE SlideVideosUpTo(_, _, _, _)
SlideVideosUpTo(slide_images, audio_map, env, i) ==
    IF i = 0 THEN <<>>
    ELSE
      LET before == SlideVideosUpTo(slide_images, audio_map, env, i - 1)
          has_audio == /\ i \in DOMAIN audio_map
                       /\ Truthy(audio_map[i].path)
                       /\ audio_map[i].path \in env.files
      IN IF has_audio /\ AudioEncoded(env, i)
         THEN Append(before, [slide |-> i, audio |-> audio_map[i].path])
         ELSE IF SilentEncoded(env, i)
              THEN Append(before, [slide |-> i, audio |-> None])
              ELSE before

\* VideoComposer._concatenate_videos
ConcatenateVideos(video_files, output_path, env) ==
    IF env.concat
    THEN [NoResult EXCEPT !.success = TRUE, !.video_path = output_path,
                          !.duration = env.duration, !.slide_count = Len(video_files)]
    ELSE [NoResult EXCEPT !.error = "ffmpeg: concat failed"]

\* CreateSlideshowVideo that concatenates whatever segments there are, even none
CreateSlideshowVideoAlwaysConcat(slide_images, audio_files, output_path, env) ==
    ConcatenateVideos(
        SlideVideosUpTo(slide_images, AudioMap(audio_files), env, Len(slide_images)),
        output_path, env)

\* CreateSlideshowVideo that gives up when a slide has no segment
CreateSlideshowVideoStrict(slide_images, audio_files, output_path, env) ==
    LET slide_videos ==
          SlideVideosUpTo(slide_images, AudioMap(audio_files), env, Len(slide_images))
    IN IF Len(slide_videos) < Len(slide_images) \/ slide_videos = <<>>
       THEN [NoResult EXCEPT !.error = "No slide videos created"]
       ELSE ConcatenateVideos(slide_videos, output_path, env)

\* VideoComposer.create_slideshow_video
CreateSlideshowVideo(slide_images, audio_files, output_path, env) ==
    LET slide_videos ==
          SlideVideosUpTo(slide_images, AudioMap(audio_files), env, Len(slide_images))
    IN IF slide_videos = <<>>
       THEN [NoResult EXCEPT !.error = "No slide videos created"]
       ELSE ConcatenateVideos(slide_videos, output_path, env)

\* JobProcessor._compose_video; VideoComposer() raises when ffmpeg is missing
ComposeVideo(slide_images, audio_files, output_path, env) ==
    IF ~env.ffmpeg
    THEN [NoResult EXCEPT !.error = "FFmpeg not found. Please install FFmpeg."]
    ELSE CreateSlideshowVideo(slide_images, audio_files, output_path, env)

\* create_slideshow_video: is slide i given to the audio-backed encode
HasAudio(audio_map, env, i) ==
    /\ i \in DOMAIN audio_map
    /\ Truthy(audio_map[i].path)
    /\ audio_map[i].path \in env.files

\* durations asked of the encoder, in tenths of a second: the default of a slide
\* without audio, and the buffer added to the probed length of a clip
SilentDuration == 50
BufferDuration == 5
Tenths(seconds) == 10 * seconds

\* AudioCall that takes the length of the clip from its "duration" entry
AudioCallByEstimate(audio_map, env, i) ==
    [ fn |-> "create_slide_video", slide |-> i, audio |-> audio_map[i].path,
      duration |-> Tenths(audio_map[i].duration) + BufferDuration,
      ok |-> AudioEncoded(env, i) ]

\* create_slide_video as called by the loop for slide i; env.duration is what
\* _get_audio_duration answers, the default when the probe fails
AudioCall(audio_map, env, i) ==
    [ fn |-> "create_slide_video", slide |-> i, audio |-> audio_map[i].path,
      duration |-> Tenths(env.duration) + BufferDuration,
      ok |-> AudioEncoded(env, i) ]

\* SilentCall that asks for three seconds
SilentCallShort(env, i) ==
    [ fn |-> "create_slide_video_no_audio", slide |-> i, audio |-> None,
      duration |-> 30, ok |-> SilentEncoded(env, i) ]

\* create_slide_video_no_audio as called by the loop for slide i
SilentCall(env, i) ==
    [ fn |-> "create_slide_video_no_audio", slide |-> i, audio |-> None,
      duration |-> SilentDuration, ok |-> SilentEncoded(env, i) ]

\* create_slideshow_video: the encode calls the loop makes over slide_images[1..i]
RECURSIVE EncodesUpTo(_, _, _, _)
EncodesUpTo(slide_images, audio_map, env, i) ==
    IF i = 0 THEN <<>>
    ELSE
      LET before == EncodesUpTo(slide_images, audio_map, env, i - 1)
      IN IF HasAudio(audio_map, env, i)
         THEN IF AudioEncoded(env, i)
              THEN Append(before, AudioCall(audio_map, env, i))
              ELSE before \o << AudioCall(audio_map, env, i), SilentCall(env, i) >>
         ELSE Append(before, SilentCall(env, i))

\* the files of a composition: the temporary directory, the segment of the slide
\* at position i (slide_{i-1}.mp4), the list file of the concatenation
TempDir == "temp_videos"
SegmentPath(i) == TempDir \o "/slide_" \o ToString(i - 1) \o ".mp4"
ConcatListPath(output_path) == output_path \o ".txt"
TempTree(slide_images) == {TempDir} \cup {SegmentPath(i) : i \in DOMAIN slide_images}

\* _concatenate_videos: the lines of the list file, one per segment
ConcatFile(video_files) ==
    [x \in DOMAIN video_files |->
        "file '" \o SegmentPath(video_files[x].slide) \o "'"]

\* Cleanup that removes the directory entry and leaves the segments behind
CleanupKeepsSegments(disk, slide_images) == disk \ {TempDir}

\* create_slideshow_video, finally: shutil.rmtree(temp_dir)
Cleanup(disk, slide_images) == disk \ TempTree(slide_images)

\* AddAvatar that does not look at the result of the overlay
AddAvatarIgnoresOverlay(video_path, env) ==
    IF env.avatar \in {"raise", "fail"} THEN None ELSE AvatarVideoPath

\* JobProcessor._add_avatar: the overlaid file, or None
AddAvatar(video_path, env) ==
    IF env.avatar = "raise" THEN None
    ELSE IF env.avatar = "fail" THEN None
    ELSE IF env.overlay THEN AvatarVideoPath
    ELSE None

\* AvatarSelected that takes "none" for an avatar
AvatarSelectedIfSet(avatar_option) == avatar_option # None

\* process_job, step 6: is the avatar step taken
AvatarSelected(avatar_option) == avatar_option # None /\ avatar_option # "none"

\* process_job, step 6: the path the completion write publishes
FinalVideoPath(video_path, avatar_video_path) ==
    IF Truthy(avatar_video_path) THEN avatar_video_path ELSE video_path

\* ------------------------------------------------- what the outside world does
\* Each step of a run draws the outcome of its stage function from these sets.
\* With rich = FALSE the sets are the smallest that still let a run fail early,
\* fail late, complete without and with the avatar; with rich = TRUE they range
\* over scripts of up to MaxSlides slides, every subset of voiced slides, every
\* outcome of every encode and an exception out of every stage function.

\* scripts of exactly n slides, a narration either too short to synthesise or not
ScriptsOfLen(n) == [1..n -> {Slide(MinTtsChars - 1), Slide(MinTtsChars)}]

\* what the model call of generate_slide_script answers
ModelAnswer(model, json, slides) == [model |-> model, json |-> json, slides |-> slides]

\* the answers of a model call that returns a text: an array of slides, or a text
\* that holds no JSON
ModelAnswers(rich) ==
    IF rich
    THEN {ModelAnswer("ok", "array", s) :
             s \in UNION {ScriptsOfLen(n) : n \in 0..MaxSlides}}
           \cup {ModelAnswer("ok", "none", <<>>)}
    ELSE {ModelAnswer("ok", "array", <<Slide(MinTtsChars)>>)}

\* parse_document: a dict, with an "error" entry when the parser caught one, or
\* an exception (get_parser, os.makedirs)
ParseOutcomes(rich) ==
    { [kind |-> "return", error |-> None],
      [kind |-> "return", error |-> "corrupt document"] }
      \cup (IF rich
            THEN { [kind |-> "return", error |-> ""],
                   [kind |-> "raise", error |-> "Unsupported file type"] }
            ELSE {})

\* generate_slides: the script generate_slide_script makes of the answer, or an
\* exception out of the construction of the generator
ScriptOutcomes(rich) ==
    {[kind |-> "return", slides |-> GenerateSlideScript(answer)] :
        answer \in ModelAnswers(rich)}
      \cup (IF rich THEN {[kind |-> "raise", slides |-> <<>>]} ELSE {})

RenderOutcomes(rich) == IF rich THEN {"return", "raise"} ELSE {"return"}

\* the slides for which the speech engine works, and whether it works for the
\* placeholder sentence; "raise" is os.makedirs failing in generate_slide_audio
AudioOutcomes(rich, n) ==
    IF rich
    THEN {[kind |-> "return", voiced |-> v, intro |-> e] :
             v \in SUBSET (1..n), e \in {"ok", "fail"}}
           \cup {[kind |-> "raise", voiced |-> {}, intro |-> "fail"]}
    ELSE {[kind |-> "return", voiced |-> 1..n, intro |-> "ok"]}

ClipPaths(audio_files) == {audio_files[x].path : x \in DOMAIN audio_files}

ComposeEnvs(rich, n, audio_files) ==
    IF rich
    THEN [ ffmpeg : BOOLEAN, files : SUBSET ClipPaths(audio_files),
           audio_enc : SUBSET (1..n), silent_enc : SUBSET (1..n),
           concat : BOOLEAN, duration : {DefaultDuration},
           lost : {{}}, output : {TRUE} ]
    ELSE [ ffmpeg : {TRUE}, files : {ClipPaths(audio_files)},
           audio_enc : {1..n}, silent_enc : {1..n},
           concat : BOOLEAN, duration : {DefaultDuration},
           lost : {{}}, output : {TRUE} ]

AvatarEnvs(rich) ==
    IF rich
    THEN [avatar : {"ok", "fail", "raise"}, overlay : BOOLEAN]
    ELSE {[avatar |-> "ok", overlay |-> TRUE], [avatar |-> "fail", overlay |-> FALSE]}

\* ---------------------------------------------------------------- routes
\* StartAllowed that also restarts a failed job
StartAllowedAlsoFailed(status) == status \in {PENDING, FAILED}

\* start_job: the statuses it accepts
StartAllowed(status) == status = PENDING

\* RetryAllowed that rejects only a pending job
RetryAllowedUnlessPending(status) == status # PENDING

\* retry_job: the statuses it accepts (failed or stuck jobs)
RetryAllowed(status) ==
    status \in {FAILED, PARSING, GENERATING_SCRIPT, GENERATING_SLIDES,
                GENERATING_AUDIO, COMPOSING_VIDEO}

\* RetryReset that leaves the error of the failed run in place
RetryResetKeepsError(row) ==
    [row EXCEPT !.status = PENDING, !.progress = 0,
                !.status_message = "Job reset, retrying..."]

\* retry_job: the reset it commits
RetryReset(row) ==
    [row EXCEPT !.status = PENDING, !.progress = 0, !.error_message = None,
                !.status_message = "Job reset, retrying..."]

HasFreeRun == \E r \in RunIds : runs[r].pc = "none"

\* background_tasks.add_task(run_job_processing, job_id)
AddTask(rs, job_id) ==
    LET r == CHOOSE q \in RunIds :
                 rs[q].pc = "none" /\ \A p \in RunIds : rs[p].pc = "none" => q <= p
    IN [rs EXCEPT ![r] = [NoRun EXCEPT !.job = job_id, !.pc = "queued"]]

Response(op, job_id, code, detail) ==
    [op |-> op, job |-> job_id, code |-> code, detail |-> detail]

StartJob(job_id) ==
    LET job == GetJob(store, job_id)
    IN /\ UNCHANGED call
       /\ IF job = NoList
          THEN /\ resp' = Response("start", job_id, 404, "Job not found")
               /\ UNCHANGED <<store, runs>>
          ELSE IF ~StartAllowed(job[1].status)
          THEN /\ resp' = Response("start", job_id, 400, "Job is already started")
               /\ UNCHANGED <<store, runs>>
          ELSE /\ HasFreeRun
               /\ runs' = AddTask(runs, job_id)
               /\ resp' = Response("start", job_id, 200, "started")
               /\ UNCHANGED store

RetryJob(job_id) ==
    LET job == GetJob(store, job_id)
    IN /\ UNCHANGED call
       /\ IF job = NoList
          THEN /\ resp' = Response("retry", job_id, 404, "Job not found")
               /\ UNCHANGED <<store, runs>>
          ELSE IF ~RetryAllowed(job[1].status)
          THEN /\ resp' = Response("retry", job_id, 400,
                                   IF job[1].status = COMPLETED
                                   THEN "Job already completed"
                                   ELSE "Job is already pending")
               /\ UNCHANGED <<store, runs>>
          ELSE /\ HasFreeRun
               /\ store' = [store EXCEPT ![job_id] = RetryReset(job[1])]
               /\ runs' = AddTask(runs, job_id)
               /\ resp' = Response("retry", job_id, 200, "retrying")

\* ----------------------------------------------------------- process_job
\* The arguments of one update_job_status call.
Update(status, progress, message, error, kwargs) ==
    [status |-> status, progress |-> progress, message |-> message,
     error |-> error, kwargs |-> kwargs]

Commit(st, job_id, u) ==
    UpdateJobStatus(st, job_id, u.status, u.progress, u.message, u.error, u.kwargs)

\* The update_job_status calls of process_job, in the order of the code.
ParsingUpdate == Update(PARSING, 5, "Parsing document...", None, NoKwargs)

ParsedUpdate(r) ==
    Update(PARSING, 15, "Document parsed successfully", None,
           [extracted |-> Some(<<"text of run", r>>)])

\* RenderingUpdate that publishes the first image before it is rendered
RenderingUpdatePublishes ==
    Update(GENERATING_SLIDES, 40, "Creating slide images...", None,
           [slide_images |-> Some(<<SlideImagePath(1)>>)])

\* ScriptingUpdate with a checkpoint below the one before it
ScriptingUpdateLow ==
    Update(GENERATING_SCRIPT, 10, "Generating presentation script with AI...", None,
           NoKwargs)

ScriptingUpdate ==
    Update(GENERATING_SCRIPT, 20, "Generating presentation script with AI...", None,
           NoKwargs)

ScriptedUpdate(slides) ==
    Update(GENERATING_SCRIPT, 35, "Generated " \o ToString(Len(slides)) \o " slides",
           None, [slide_script |-> Some(slides)])

RenderingUpdate ==
    Update(GENERATING_SLIDES, 40, "Creating slide images...", None, NoKwargs)

RenderedUpdate(slide_images) ==
    Update(GENERATING_SLIDES, 55,
           "Created " \o ToString(Len(slide_images)) \o " slide images", None,
           [slide_images |-> Some(slide_images)])

VoicingUpdate == Update(GENERATING_AUDIO, 60, "Generating voiceover...", None, NoKwargs)

\* VoicedUpdate that reports the checkpoint of the step before it
VoicedUpdateRepeats60 == Update(GENERATING_AUDIO, 60, "Voiceover generated", None, NoKwargs)

VoicedUpdate == Update(GENERATING_AUDIO, 75, "Voiceover generated", None, NoKwargs)

ComposingUpdate == Update(COMPOSING_VIDEO, 80, "Composing video...", None, NoKwargs)

AvatarUpdate == Update(COMPOSING_VIDEO, 90, "Adding avatar overlay...", None, NoKwargs)

CompletedUpdate(final_video_path, duration) ==
    Update(COMPLETED, 100, "Video generation complete!", None,
           [video_path |-> final_video_path, video_duration |-> duration,
            completed_at |-> "utcnow"])

\* FailureUpdate that forgets to reset the progress
FailureUpdateKeepsProgress(text) == Update(FAILED, NoInt, "Job failed", text, NoKwargs)

\* the except branch
FailureUpdate(text) == Update(FAILED, 0, "Job failed", text, NoKwargs)

\* One step of run r: its frame becomes rec, the jobs table becomes st.
Step(r, rec, st) ==
    /\ runs' = [runs EXCEPT ![r] = rec]
    /\ store' = st
    /\ UNCHANGED <<resp, call>>

\* One step of run r that ends with the commit of update u; the frame's writes
\* are the (status, progress) pairs the run has committed so far, its updates the
\* arguments of those update_job_status calls.
Write(r, rec, u) ==
    Step(r, [rec EXCEPT !.writes = Append(@, <<u.status, u.progress>>),
                        !.updates = Append(@, u)],
         Commit(store, rec.job, u))

\* The frame's calls are the stage functions the run has invoked so far, each
\* with what the outside world made of it.
Called(rec, fn, outcome) == [rec EXCEPT !.calls = Append(@, <<fn, outcome>>)]

\* The frame's files are the artifact files that the stage functions of the run
\* have written and reported: the slide images, the video, the overlaid video.
Produced(rec, paths) == [rec EXCEPT !.files = @ \cup paths]

\* process_job returns: its locals are gone, its return value is kept
Return(rec, result) ==
    [rec EXCEPT !.pc = "done", !.result = result,
                !.slides = <<>>, !.slide_images = <<>>, !.synth = <<>>,
                !.audio_files = <<>>, !.video_result = NoResult]

\* the except branch of process_job
Failed(r, rec, text) ==
    Write(r, Return(rec, [NoResult EXCEPT !.error = text]), FailureUpdate(text))

\* a checkpoint write that starts a stage
Checkpoint(r, from, to, u) ==
    /\ runs[r].pc = from
    /\ Write(r, [runs[r] EXCEPT !.pc = to], u)

\* the output directory of the job, which holds every file of a run
JobDir == "output/job"

\* Begin that does not look the job up
BeginAnyway(r) ==
    /\ runs[r].pc = "queued"
    /\ Step(r, [Produced(runs[r], {JobDir}) EXCEPT !.pc = "parse_start"], store)

\* run_job_processing starts: process_job reads the job and makes its directory
Begin(r) ==
    /\ runs[r].pc = "queued"
    /\ LET job == GetJob(store, runs[r].job)
       IN IF job = NoList
          THEN Step(r, Return(runs[r], [NoResult EXCEPT !.error = "Job not found"]),
                    store)
          ELSE Step(r, [Produced(runs[r], {JobDir})
                          EXCEPT !.pc = "parse_start",
                                 !.avatar_option = job[1].avatar_option],
                    store)

ParseStart(r) == Checkpoint(r, "parse_start", "parse", ParsingUpdate)

\* ParseFailure that leaves out what the parser said
ParseFailureGeneric(error) == "Failed to parse document"

\* process_job, step 1: the exception raised for a parser result with an error
ParseFailure(error) == "Failed to parse document: " \o error

Parse(r, rich) ==
    /\ runs[r].pc = "parse"
    /\ \E out \in ParseOutcomes(rich) :
         IF out.kind = "raise"
         THEN Failed(r, Called(runs[r], "parse", "raise"), out.error)
         ELSE IF Truthy(out.error)
         THEN Failed(r, Called(runs[r], "parse", "error"), ParseFailure(out.error))
         ELSE Write(r, [Called(runs[r], "parse", "ok") EXCEPT !.pc = "script_start"],
                    ParsedUpdate(r))

ScriptStart(r) == Checkpoint(r, "script_start", "script", ScriptingUpdate)

Script(r, rich) ==
    /\ runs[r].pc = "script"
    /\ \E out \in ScriptOutcomes(rich) :
         IF out.kind = "raise"
         THEN Failed(r, Called(runs[r], "script", "raise"), "script generation raised")
         ELSE Write(r, [Called(runs[r], "script", "ok")
                          EXCEPT !.pc = "slides_start", !.slides = out.slides],
                    ScriptedUpdate(out.slides))

SlidesStart(r) == Checkpoint(r, "slides_start", "slides", RenderingUpdate)

Slides(r, rich) ==
    /\ runs[r].pc = "slides"
    /\ \E out \in RenderOutcomes(rich) :
         LET slide_images == [i \in 1..Len(runs[r].slides) |-> SlideImagePath(i)]
         IN IF out = "raise"
            THEN Failed(r, Called(runs[r], "render", "raise"), "slide rendering raised")
            ELSE Write(r, [Produced(Called(runs[r], "render", "ok"),
                                     {slide_images[i] : i \in DOMAIN slide_images})
                             EXCEPT !.pc = "audio_start", !.slide_images = slide_images],
                       RenderedUpdate(slide_images))

AudioStart(r) == Checkpoint(r, "audio_start", "audio", VoicingUpdate)

Audio(r, rich) ==
    /\ runs[r].pc = "audio"
    /\ \E out \in AudioOutcomes(rich, Len(runs[r].slides)) :
         LET audio_result == GenerateSlideAudio(runs[r].slides, out.voiced)
             intro_result == GenerateAudio(IntroChars, IntroPath, out.intro)
             rec == Called(runs[r], "tts", out.kind)
         IN IF out.kind = "raise"
            THEN Failed(r, rec, "audio generation raised")
            ELSE IF ~audio_result.success
            THEN Failed(r, rec, "Failed to generate audio: Unknown error")
            ELSE Write(r, [(IF audio_result.audio_files = <<>>
                            THEN Called(rec, "intro", out.intro)
                            ELSE rec)
                             EXCEPT !.pc = "compose_start",
                                    !.synth = audio_result.audio_files,
                                    !.audio_files =
                                        WithFallback(audio_result.audio_files,
                                                     intro_result)],
                       VoicedUpdate)

ComposeStart(r) == Checkpoint(r, "compose_start", "compose", ComposingUpdate)

\* the completion write and the return that follows it
Complete(r, rec, final_video_path) ==
    Write(r, Return(rec, [NoResult EXCEPT !.success = TRUE,
                                          !.video_path = final_video_path,
                                          !.duration = rec.video_result.duration,
                                          !.slide_count = Len(rec.slides)]),
          CompletedUpdate(final_video_path, rec.video_result.duration))

Compose(r, rich) ==
    /\ runs[r].pc = "compose"
    /\ \E env \in ComposeEnvs(rich, Len(runs[r].slide_images), runs[r].audio_files) :
         LET video_result ==
               ComposeVideo(runs[r].slide_images, runs[r].audio_files, VideoPath, env)
             rec == [Produced(Called(runs[r], "compose",
                                     IF video_result.success THEN "ok" ELSE "fail"),
                              IF video_result.success THEN {VideoPath} ELSE {})
                       EXCEPT !.video_result = video_result]
         IN IF ~video_result.success
            THEN Failed(r, rec, "Failed to compose video: " \o video_result.error)
            ELSE IF AvatarSelected(rec.avatar_option)
            THEN Write(r, [rec EXCEPT !.pc = "avatar"], AvatarUpdate)
            ELSE Complete(r, rec, FinalVideoPath(VideoPath, None))

\* what the avatar renderer and the overlay encode did
AvatarOutcome(env) ==
    IF env.avatar # "ok" THEN env.avatar
    ELSE IF env.overlay THEN "overlaid" ELSE "overlay failed"

Avatar(r, rich) ==
    /\ runs[r].pc = "avatar"
    /\ \E env \in AvatarEnvs(rich) :
         LET avatar_video_path == AddAvatar(VideoPath, env)
         IN Complete(r, Produced(Called(runs[r], "avatar", AvatarOutcome(env)),
                                 IF Truthy(avatar_video_path)
                                 THEN {avatar_video_path} ELSE {}),
                     FinalVideoPath(VideoPath, avatar_video_path))

\* ------------------------------------------------------------ specification
\* One job uploaded by upload_file, nothing started.
Init ==
    /\ \E avatar \in AvatarOption : store = [j \in {"j1"} |-> NewJob(avatar)]
    /\ runs = [r \in RunIds |-> NoRun]
    /\ resp = Response("upload", "j1", 200, "pending")
    /\ call = NoCall

\* The steps of process_job; each ends at a commit.
RunStep(r, rich) ==
    \/ Begin(r)
    \/ ParseStart(r)
    \/ Parse(r, rich)
    \/ ScriptStart(r)
    \/ Script(r, rich)
    \/ SlidesStart(r)
    \/ Slides(r, rich)
    \/ AudioStart(r)
    \/ Audio(r, rich)
    \/ ComposeStart(r)
    \/ Compose(r, rich)
    \/ Avatar(r, rich)

\* Requests and background runs interleaved at every commit.
Next ==
    \/ \E j \in JobIds : StartJob(j)
    \/ \E j \in JobIds : RetryJob(j)
    \/ \E r \in RunIds : RunStep(r, FALSE)

Spec == Init /\ [][Next]_vars

\* The first background run alone, over every outcome of every stage function;
\* the requests still arrive at any time.
FirstRun == {r \in RunIds : \A q \in RunIds : r <= q}

NextRun ==
    \/ \E j \in JobIds : StartJob(j)
    \/ \E j \in JobIds : RetryJob(j)
    \/ \E r \in FirstRun : RunStep(r, TRUE)

SpecRun == Init /\ [][NextRun]_vars

\* ------------------------------------------------- the job store failing
\* A statement or commit of the session raises (the database is unreachable).
StoreError == "database is unavailable"

\* run_job_processing, except branch: UPDATE jobs SET status, error_message
HandlerUpdate(st, job_id, text) ==
    IF job_id \notin DOMAIN st THEN st
    ELSE [st EXCEPT ![job_id].status = FAILED, ![job_id].error_message = text]

\* An exception leaves process_job and reaches run_job_processing, whose own
\* update is committed (handled) or raises as well.
Escaped(r, rec, text, handled) ==
    IF handled
    THEN Step(r, [Return(rec, NoResult)
                    EXCEPT !.pc = "raised", !.writes = Append(@, <<FAILED, NoInt>>)],
              HandlerUpdate(store, rec.job, text))
    ELSE Step(r, [Return(rec, NoResult) EXCEPT !.pc = "raised"], store)

\* process_job, the read of the job before the try block raises
BeginRaises(r) ==
    /\ runs[r].pc = "queued"
    /\ \E handled \in BOOLEAN : Escaped(r, runs[r], StoreError, handled)

\* process_job, the next update_job_status of the run raises: the except branch
\* writes FAILED (recovered), or its update_job_status raises too and the
\* exception leaves process_job
WriteRaises(r) ==
    /\ runs[r].pc \in {"parse_start", "parse", "script_start", "script",
                       "slides_start", "slides", "audio_start", "audio",
                       "compose_start", "compose", "avatar"}
    /\ \E recovered, handled \in BOOLEAN :
          IF recovered
          THEN Failed(r, runs[r], StoreError)
          ELSE Escaped(r, runs[r], StoreError, handled)

\* One background run over a job store that may fail at any read or write.
NextStore ==
    \/ \E j \in JobIds : StartJob(j)
    \/ \E j \in JobIds : RetryJob(j)
    \/ \E r \in FirstRun : RunStep(r, FALSE)
    \/ \E r \in FirstRun : BeginRaises(r)
    \/ \E r \in FirstRun : WriteRaises(r)

SpecStore == Init /\ [][NextStore]_vars

\* ------------------------------------------- an encoder that never exits
\* process_job, step 5: during the encode of a slide the external tool never
\* exits.  create_slide_video gives up after its timeout and the loop goes on to
\* create_slide_video_no_audio, whose subprocess.run has no timeout and does not
\* return: the run stays in _compose_video.
ComposeBlocks(r) ==
    /\ runs[r].pc = "compose"
    /\ runs[r].slide_images # <<>>
    /\ Step(r, [Called(runs[r], "compose", "blocked") EXCEPT !.pc = "blocked"], store)

\* the steps the first run takes when it is given the processor
RunLive == \E r \in FirstRun : RunStep(r, FALSE) \/ ComposeBlocks(r)

NextLive ==
    \/ \E j \in JobIds : StartJob(j)
    \/ \E j \in JobIds : RetryJob(j)
    \/ \E r \in FirstRun : RunStep(r, FALSE)
    \/ \E r \in FirstRun : ComposeBlocks(r)

\* The background task is a coroutine of the server's event loop: it takes its
\* next step whenever the call it waits for has returned.
SpecLive == Init /\ [][NextLive]_vars /\ WF_vars(RunLive)

\* ------------------------------------------------------- runs one after another
\* The job has been started once; it is retried when it has failed or is in
\* progress, and a retry's run begins when the run before it has ended.  The model
\* may answer each run with a different script.
InitRetry ==
    /\ \E avatar \in AvatarOption : store = [j \in {"j1"} |-> NewJob(avatar)]
    /\ runs = AddTask([r \in RunIds |-> NoRun], "j1")
    /\ resp = Response("start", "j1", 200, "started")
    /\ call = NoCall

\* no other run is between its first step and its end
InTurn(r) == \A q \in RunIds \ {r} : runs[q].pc \in {"none", "queued", "done"}

RunStepAnyScript(r) ==
    \/ InTurn(r) /\ Begin(r)
    \/ InTurn(r) /\ ParseStart(r)
    \/ InTurn(r) /\ Parse(r, FALSE)
    \/ InTurn(r) /\ ScriptStart(r)
    \/ InTurn(r) /\ Script(r, TRUE)
    \/ InTurn(r) /\ SlidesStart(r)
    \/ InTurn(r) /\ Slides(r, FALSE)
    \/ InTurn(r) /\ AudioStart(r)
    \/ InTurn(r) /\ Audio(r, FALSE)
    \/ InTurn(r) /\ ComposeStart(r)
    \/ InTurn(r) /\ Compose(r, FALSE)
    \/ InTurn(r) /\ Avatar(r, FALSE)

NextRetry ==
    \/ \E j \in JobIds : RetryJob(j)
    \/ \E r \in RunIds : RunStepAnyScript(r)

SpecRetry == InitRetry /\ [][NextRetry]_vars

\* ------------------------------------------------------------ a job deleted
\* delete_job: db.delete(job), committed
DeleteRow(st, job_id) == [j \in DOMAIN st \ {job_id} |-> st[j]]

\* delete_job: shutil.rmtree of the job's directories; the files the runs of
\* the job have written so far are gone
RemoveTree(rs, job_id) ==
    [r \in DOMAIN rs |-> IF rs[r].job = job_id /\ rs[r].pc # "none"
                         THEN [rs[r] EXCEPT !.files = {}]
                         ELSE rs[r]]

DeleteJob(job_id) ==
    LET job == GetJob(store, job_id)
    IN /\ UNCHANGED call
       /\ IF job = NoList
          THEN /\ resp' = Response("delete", job_id, 404, "Job not found")
               /\ UNCHANGED <<store, runs>>
          ELSE /\ runs' = RemoveTree(runs, job_id)
               /\ store' = DeleteRow(store, job_id)
               /\ resp' = Response("delete", job_id, 200, "Job deleted successfully")

\* The requests, the deletion among them, arrive at any time between the steps
\* of the first background run.
NextDelete ==
    \/ \E j \in JobIds : StartJob(j)
    \/ \E j \in JobIds : RetryJob(j)
    \/ \E j \in JobIds : DeleteJob(j)
    \/ \E r \in FirstRun : RunStep(r, FALSE)

SpecDelete == Init /\ [][NextDelete]_vars

\* ------------------------------------------------------------- two jobs
\* Two jobs uploaded, nothing started; each is started by start_job and their
\* runs interleave at every commit.
InitTwo ==
    /\ \E avatars \in [JobIds -> AvatarOption] :
          store = [j \in JobIds |-> NewJob(avatars[j])]
    /\ runs = [r \in RunIds |-> NoRun]
    /\ resp = Response("upload", "j2", 200, "pending")
    /\ call = NoCall

\* run r is the first run scheduled for its job
FirstRunOfJob(r) ==
    /\ runs[r].pc # "none"
    /\ \A q \in RunIds : q < r => runs[q].job # runs[r].job

\* The steps of the first run of a job; a second run of the same job is left to
\* Spec.
RunStepOfFirst(r) ==
    \/ FirstRunOfJob(r) /\ Begin(r)
    \/ FirstRunOfJob(r) /\ ParseStart(r)
    \/ FirstRunOfJob(r) /\ Parse(r, FALSE)
    \/ FirstRunOfJob(r) /\ ScriptStart(r)
    \/ FirstRunOfJob(r) /\ Script(r, FALSE)
    \/ FirstRunOfJob(r) /\ SlidesStart(r)
    \/ FirstRunOfJob(r) /\ Slides(r, FALSE)
    \/ FirstRunOfJob(r) /\ AudioStart(r)
    \/ FirstRunOfJob(r) /\ Audio(r, FALSE)
    \/ FirstRunOfJob(r) /\ ComposeStart(r)
    \/ FirstRunOfJob(r) /\ Compose(r, FALSE)
    \/ FirstRunOfJob(r) /\ Avatar(r, FALSE)

NextTwo ==
    \/ \E j \in JobIds : StartJob(j)
    \/ \E r \in RunIds : RunStepOfFirst(r)

SpecTwo == InitTwo /\ [][NextTwo]_vars

\* ------------------------------------------- service functions on their own
\* create_slideshow_video and generate_slide_script called on arguments that
\* process_job need not produce: audio lists in any order, with any slide_number.
ClipPath(x) == "audio/clip_" \o ToString(x) \o ".mp3"

\* the clips an audio list may hold at position x when there are n slides: any
\* slide_number (0 when the key is absent, n + 1 beyond the slides); the first
\* clip may lack its path
ClipsAt(x, n) ==
    {[slide_number |-> k, path |-> p, duration |-> EstimatedSeconds] :
        k \in 0..(n + 1), p \in {ClipPath(x)} \cup (IF x = 1 THEN {None} ELSE {})}

AudioLists(n) ==
    UNION {{list \in [1..len -> UNION {ClipsAt(x, n) : x \in 1..len}] :
               \A x \in 1..len : list[x] \in ClipsAt(x, n)} : len \in 0..MaxSlides}

\* what the outside world does during one composition when every invocation
\* that exits with 0 has written its output: as ComposeEnvs, the slide
\* at which the loop raises (0: it does not, n: at the last slide), the slide
\* during whose encode the external tool never exits (0: it always exits) and the
\* answer of the probe; at most one of the three departs from the usual
CallEnvs(n, audio_files) ==
    {env \in [ ffmpeg : {TRUE},
               files : SUBSET ClipPaths(audio_files),
               audio_enc : SUBSET (1..n), silent_enc : SUBSET (1..n),
               concat : BOOLEAN, duration : {DefaultDuration, ProbedSeconds},
               lost : {{}}, output : {TRUE}, raises : {0, n}, stuck : {0, n} ] :
        Cardinality({f \in {"raises", "stuck"} : env[f] # 0}
                      \cup {f \in {"duration"} : env[f] # DefaultDuration}) <= 1}

\* the texts a slide of the model's answer may carry: none, too short, long enough
RawScriptsOfLen(n) ==
    [1..n -> {Slide(0), Slide(MinTtsChars - 1), Slide(MinTtsChars)}]

AllModelAnswers ==
    {ModelAnswer("ok", "array", s) :
        s \in UNION {RawScriptsOfLen(n) : n \in 0..MaxSlides}}
      \cup {ModelAnswer("ok", "none", <<>>), ModelAnswer("ok", "object", <<>>),
            ModelAnswer("raise", "none", <<>>)}

SlideshowCall(slide_images, audio_files, env) ==
    [ fn |-> "create_slideshow_video", pc |-> "called",
      slide_images |-> slide_images, audio_files |-> audio_files, env |-> env,
      encodes |-> <<>>, segments |-> <<>>, concat |-> NoList, list |-> <<>>,
      result |-> NoResult,
      made |-> {}, disk |-> {} ]

ScriptCall(answer) ==
    [ fn |-> "generate_slide_script", pc |-> "called", answer |-> answer,
      slides |-> <<>> ]

\* create_slide_video when the tool does not exit: subprocess.run(timeout=120)
\* raises TimeoutExpired, the except branch returns False
TimedOut(encode) == [encode EXCEPT !.ok = FALSE]

\* create_slideshow_video, the loop at slide i when the tool never exits: the
\* audio-backed encode, if the slide has audio, times out, and the silent encode,
\* subprocess.run without a timeout, is invoked and does not return
StuckEncodes(audio_map, env, i) ==
    (IF HasAudio(audio_map, env, i)
     THEN << TimedOut(AudioCall(audio_map, env, i)) >>
     ELSE <<>>)
      \o << [SilentCall(env, i) EXCEPT !.ok = FALSE] >>

\* VideoComposer.create_slideshow_video from makedirs to the end of finally: the
\* encode calls made, the segments collected, the list given to the concatenation
\* if it was called and the lines of its list file, the files made, and the files
\* left when the call ends.  The
\* call is blocked when an invocation of the tool never returns.
CreateSlideshowVideoCall(c) ==
    LET raised == c.env.raises # 0
        blocked == c.env.stuck # 0
        upto == IF raised THEN c.env.raises - 1
                ELSE IF blocked THEN c.env.stuck - 1
                ELSE Len(c.slide_images)
        audio_map == AudioMap(c.audio_files)
        encodes == EncodesUpTo(c.slide_images, audio_map, c.env, upto)
                     \o (IF blocked THEN StuckEncodes(audio_map, c.env, c.env.stuck)
                         ELSE <<>>)
        slide_videos == SlideVideosUpTo(c.slide_images, audio_map, c.env, upto)
        concatenated == ~raised /\ ~blocked /\ slide_videos # <<>>
        result == IF raised \/ blocked THEN NoResult
                  ELSE CreateSlideshowVideo(c.slide_images, c.audio_files, VideoPath,
                                            c.env)
        made == {TempDir}
                  \cup ({SegmentPath(encodes[x].slide) : x \in DOMAIN encodes}
                          \ {SegmentPath(i) : i \in c.env.lost})
                  \cup (IF concatenated THEN {ConcatListPath(VideoPath)} ELSE {})
                  \cup (IF result.success /\ c.env.output THEN {VideoPath} ELSE {})
    IN [c EXCEPT !.pc = IF raised THEN "raised"
                        ELSE IF blocked THEN "blocked" ELSE "returned",
                 !.encodes = encodes,
                 !.segments = slide_videos,
                 !.concat = IF concatenated THEN Some(slide_videos) ELSE NoList,
                 !.list = IF concatenated THEN ConcatFile(slide_videos) ELSE <<>>,
                 !.result = result,
                 !.made = made,
                 !.disk = IF blocked THEN made
                          ELSE Cleanup(made \ {ConcatListPath(VideoPath)},
                                       c.slide_images)]

CallCreateSlideshowVideo ==
    /\ call.fn = "create_slideshow_video"
    /\ call.pc = "called"
    /\ call' = CreateSlideshowVideoCall(call)
    /\ UNCHANGED <<store, runs, resp>>

CallGenerateSlideScript ==
    /\ call.fn = "generate_slide_script"
    /\ call.pc = "called"
    /\ call' = [call EXCEPT !.pc = "returned",
                            !.slides = GenerateSlideScript(call.answer)]
    /\ UNCHANGED <<store, runs, resp>>

InitCalls ==
    /\ store = [j \in {"j1"} |-> NewJob("none")]
    /\ runs = [r \in RunIds |-> NoRun]
    /\ resp = Response("upload", "j1", 200, "pending")
    /\ \/ \E n \in 0..MaxSlides :
            \E audio_files \in AudioLists(n) :
               \E env \in CallEnvs(n, audio_files) :
                  call = SlideshowCall([i \in 1..n |-> SlideImagePath(i)],
                                       audio_files, env)
       \/ \E answer \in AllModelAnswers : call = ScriptCall(answer)

NextCalls ==
    \/ CallCreateSlideshowVideo
    \/ CallGenerateSlideScript

SpecCalls == InitCalls /\ [][NextCalls]_vars

\* create_slideshow_video when an invocation of the tool may exit with 0 and
\* leave no output file: env.lost are the slides whose encodes do, env.output
\* says whether the concatenation writes its file.
OutputEnvs(n, audio_files) ==
    [ ffmpeg : {TRUE},
      files : {ClipPaths(audio_files) \ {None}},
      audio_enc : SUBSET (1..n), silent_enc : SUBSET (1..n),
      concat : BOOLEAN, duration : {DefaultDuration},
      lost : SUBSET (1..n), output : BOOLEAN, raises : {0}, stuck : {0} ]

InitOutput ==
    /\ store = [j \in {"j1"} |-> NewJob("none")]
    /\ runs = [r \in RunIds |-> NoRun]
    /\ resp = Response("upload", "j1", 200, "pending")
    /\ \E n \in 0..MaxSlides :
          \E audio_files \in AudioLists(n) :
             \E env \in OutputEnvs(n, audio_files) :
                call = SlideshowCall([i \in 1..n |-> SlideImagePath(i)],
                                     audio_files, env)

NextOutput == CallCreateSlideshowVideo

SpecOutput == InitOutput /\ [][NextOutput]_vars

\* ------------------------------------------------ update_job_status on its own
\* the rows a job may have when an update reaches it: as uploaded, as a failed
\* run left it and as a completed run left it
FailedRow ==
    [NewJob("none") EXCEPT !.status = FAILED, !.status_message = "Job failed",
                           !.error_message = "Failed to compose video: No slide videos created",
                           !.extracted = Some(<<"text of run", 1>>),
                           !.slide_script = Some(<<Slide(MinTtsChars)>>),
                           !.slide_images = Some(<<SlideImagePath(1)>>)]

CompletedRow ==
    [FailedRow EXCEPT !.status = COMPLETED, !.progress = 100,
                      !.status_message = "Video generation complete!",
                      !.error_message = None, !.video_path = VideoPath,
                      !.video_duration = DefaultDuration, !.completed_at = "utcnow"]

StoredRows == {NewJob("none"), FailedRow, CompletedRow}

\* the arguments update_job_status may be given: every status, progress absent
\* or not, message and error absent, empty or not, and the keyword arguments
UpdateArgs ==
    { Update(status, progress, message, error, kwargs) :
        status \in {JobStatus[i] : i \in DOMAIN JobStatus},
        progress \in {NoInt, 0, 15},
        message \in {None, "", "Document parsed successfully"},
        error \in {None, "", "audio generation raised"},
        kwargs \in { NoKwargs,
                     [slide_images |-> Some(<<SlideImagePath(1), SlideImagePath(2)>>)],
                     [video_path |-> AvatarVideoPath, video_duration |-> ProbedSeconds,
                      completed_at |-> "utcnow"] } }

UpdateCall(job_id, u, st) ==
    [ fn |-> "update_job_status", pc |-> "called", job_id |-> job_id, update |-> u,
      before |-> st ]

\* update_job_status called with call.update for call.job_id
CallUpdateJobStatus ==
    /\ call.fn = "update_job_status"
    /\ call.pc = "called"
    /\ store' = Commit(store, call.job_id, call.update)
    /\ call' = [call EXCEPT !.pc = "returned"]
    /\ UNCHANGED <<runs, resp>>

\* One job in the store; the update is for it or for a job that has no row.
InitUpdate ==
    /\ \E row \in StoredRows : store = [j \in {"j1"} |-> row]
    /\ runs = [r \in RunIds |-> NoRun]
    /\ resp = Response("upload", "j1", 200, "pending")
    /\ \E job_id \in JobIds, u \in UpdateArgs : call = UpdateCall(job_id, u, store)

NextUpdate == CallUpdateJobStatus

SpecUpdate == InitUpdate /\ [][NextUpdate]_vars

\* ================================================================ properties
Progresses(writes) == [i \in DOMAIN writes |-> writes[i][2]]

NonDecreasing(seq) == \A i, k \in DOMAIN seq : i < k => seq[i] <= seq[k]

Last(seq) == seq[Len(seq)]

\* a run is executing from its first status write to its terminal write
Executing(r) == runs[r].writes # <<>> /\ runs[r].pc # "done"

Rank(status) == CHOOSE i \in DOMAIN JobStatus : JobStatus[i] = status

\* the calls of a run in which a stage reported a failure
StageFailures(rec) ==
    {i \in DOMAIN rec.calls :
        /\ rec.calls[i][1] \in {"parse", "script", "render", "tts", "compose"}
        /\ rec.calls[i][2] \in {"raise", "error", "fail"}}

\* C1: for every job at most one process_job run is executing at any time.
C1_OneRunPerJob ==
    \A j \in JobIds :
        Cardinality({r \in RunIds : runs[r].job = j /\ Executing(r)}) <= 1

\* C2 as claimed: the progress values a run persists never decrease, from the
\* PENDING value to the terminal write, COMPLETED or FAILED.
C2_ProgressNonDecreasing ==
    \A r \in RunIds : NonDecreasing(<<0>> \o Progresses(runs[r].writes))

\* C2 as amended: the progress values a run persists never decrease from the
\* PENDING value up to and including a COMPLETED write; a FAILED write is the
\* run's last write and persists progress 0.
C2_ProgressNonDecreasingUntilFailure ==
    \A r \in RunIds :
        LET w == runs[r].writes
        IN /\ \A i \in DOMAIN w : w[i][1] = FAILED => i = Len(w) /\ w[i][2] = 0
           /\ NonDecreasing(<<0>> \o Progresses(SelectSeq(w, LAMBDA x : x[1] # FAILED)))

C2_Witness ==
    \E r \in RunIds :
        /\ runs[r].pc = "done"
        /\ Len(runs[r].writes) > 1
        /\ Last(runs[r].writes) = <<FAILED, 0>>
        /\ <<COMPOSING_VIDEO, 80>> = runs[r].writes[Len(runs[r].writes) - 1]

\* C3: every change of a job's status is a step forward in the order PENDING ..
\* COMPLETED, or a step from a non-terminal status to FAILED, or the reset to
\* PENDING of an accepted retry.
C3_StatusChangesAllowed ==
    [][\A j \in DOMAIN store \cap DOMAIN store' :
          LET a == store[j].status
              b == store'[j].status
          IN a # b =>
               \/ a # FAILED /\ b # FAILED /\ Rank(a) < Rank(b)
               \/ b = FAILED /\ a \notin {COMPLETED, FAILED}
               \/ b = PENDING /\ RetryJob(j)]_vars

\* C4: when a stage of a run fails, that step of the run persists FAILED with
\* progress 0 and the diagnostic as error_message and returns a failure with the
\* same diagnostic; the failed call is the last stage call of the run.
C4_StageFailureFailsJob ==
    [][\A r \in RunIds :
          LET rec == runs'[r]
          IN StageFailures(rec) # {} =>
               /\ StageFailures(rec) = {Len(rec.calls)}
               /\ rec.pc = "done"
               /\ ~rec.result.success
               /\ Truthy(rec.result.error)
               /\ Last(rec.writes) = <<FAILED, 0>>
               /\ runs[r].pc # "done" =>
                    /\ store'[rec.job].status = FAILED
                    /\ store'[rec.job].progress = 0
                    /\ store'[rec.job].error_message = rec.result.error]_vars

C4_Witness ==
    \E r \in RunIds :
        /\ runs[r].pc = "done"
        /\ Last(runs[r].calls) = <<"compose", "fail">>
        /\ store[runs[r].job].status = FAILED
        /\ store[runs[r].job].progress = 0
        /\ store[runs[r].job].error_message = "Failed to compose video: No slide videos created"

\* the runs a step schedules
Scheduled(j) ==
    {r \in RunIds : runs[r].pc = "none" /\ runs'[r].pc = "queued" /\ runs'[r].job = j}

SchedulesOneRun(j) ==
    /\ Cardinality(Scheduled(j)) = 1
    /\ \A r \in RunIds \ Scheduled(j) : runs'[r] = runs[r]

\* C5: retry_job on a COMPLETED or PENDING job is rejected with an error, changes
\* no field of the job record and schedules no run.
C5_RetryRejected ==
    [][\A j \in DOMAIN store :
          store[j].status \in {COMPLETED, PENDING} /\ RetryJob(j) =>
             /\ resp'.op = "retry" /\ resp'.code = 400
             /\ store' = store
             /\ runs' = runs]_vars

C5_Witness ==
    /\ resp = Response("retry", "j1", 400, "Job already completed")
    /\ store["j1"].status = COMPLETED

\* C6: retry_job on a FAILED or in-progress job is accepted: right after it the
\* job is PENDING with progress 0 and no error_message, and exactly one new run
\* is scheduled.
C6_RetryAccepted ==
    [][\A j \in DOMAIN store :
          /\ store[j].status \in {FAILED, PARSING, GENERATING_SCRIPT, GENERATING_SLIDES,
                                  GENERATING_AUDIO, COMPOSING_VIDEO}
          /\ RetryJob(j)
          => /\ resp'.op = "retry" /\ resp'.code = 200
             /\ store'[j].status = PENDING
             /\ store'[j].progress = 0
             /\ store'[j].error_message = None
             /\ SchedulesOneRun(j)]_vars

C6_Witness ==
    /\ resp = Response("retry", "j1", 200, "retrying")
    /\ store["j1"].status = PENDING
    /\ store["j1"].error_message = None
    /\ \E r, q \in RunIds :
          /\ runs[r].pc = "done" /\ Last(runs[r].writes) = <<FAILED, 0>>
          /\ runs[q].pc = "queued"

\* C7: start_job schedules a run only when the job is PENDING; for every other
\* status it is rejected, changes nothing in the job record and schedules no run.
C7_StartOnlyWhenPending ==
    [][\A j \in DOMAIN store :
          StartJob(j) =>
             /\ resp'.op = "start"
             /\ store' = store
             /\ IF store[j].status = PENDING
                THEN resp'.code = 200 /\ SchedulesOneRun(j)
                ELSE resp'.code = 400 /\ runs' = runs]_vars

C7_Witness ==
    /\ resp = Response("start", "j1", 400, "Job is already started")
    /\ store["j1"].status = FAILED

ComposeOk(rec) == \E i \in DOMAIN rec.calls : rec.calls[i] = <<"compose", "ok">>

Overlaid(rec) == \E i \in DOMAIN rec.calls : rec.calls[i] = <<"avatar", "overlaid">>

AvatarInvoked(rec) == \E i \in DOMAIN rec.calls : rec.calls[i][1] = "avatar"

\* C8: once composition has succeeded a run never persists FAILED; it ends by
\* persisting COMPLETED, with the overlaid file as video_path when the overlay
\* reported success and the non-overlaid video otherwise (avatar generation or
\* overlay failed or raised, or no avatar was asked for).
C8_AvatarNeverFailsJob ==
    [][\A r \in RunIds :
          LET rec == runs'[r]
              path == IF Overlaid(rec) THEN AvatarVideoPath ELSE VideoPath
          IN ComposeOk(rec) =>
               /\ \A i \in DOMAIN rec.writes : rec.writes[i][1] # FAILED
               /\ runs[r].pc # "done" /\ rec.pc = "done" =>
                    /\ Last(rec.writes) = <<COMPLETED, 100>>
                    /\ store'[rec.job].status = COMPLETED
                    /\ store'[rec.job].video_path = path
                    /\ rec.result.success
                    /\ rec.result.video_path = path]_vars

C8_Witness ==
    \E r \in RunIds :
        /\ runs[r].pc = "done"
        /\ Last(runs[r].calls) = <<"avatar", "overlay failed">>
        /\ store[runs[r].job].status = COMPLETED
        /\ store[runs[r].job].video_path = VideoPath

\* C9: the avatar step is invoked in a run exactly when the job's avatar option
\* is set and not "none" and composition succeeded; with the option "none" there
\* is no avatar invocation and the checkpoint 90 is never persisted.
C9_AvatarOnlyWhenSelected ==
    \A r \in RunIds :
        LET rec == runs[r]
            option == store[rec.job].avatar_option
            selected == option # None /\ option # "none"
            checkpoint90 == \E i \in DOMAIN rec.writes :
                               rec.writes[i] = <<COMPOSING_VIDEO, 90>>
        IN rec.pc \notin {"none", "queued"} /\ rec.job \in DOMAIN store =>
             /\ AvatarInvoked(rec) => selected /\ ComposeOk(rec)
             /\ checkpoint90 => selected /\ ComposeOk(rec)
             /\ selected /\ ComposeOk(rec) =>
                  checkpoint90 /\ (AvatarInvoked(rec) \/ rec.pc = "avatar")

C9_Witness ==
    \E r \in RunIds :
        /\ runs[r].pc = "done"
        /\ store[runs[r].job].avatar_option = "none"
        /\ store[runs[r].job].status = COMPLETED
        /\ Last(runs[r].calls) = <<"compose", "ok">>
        /\ Last(runs[r].writes) = <<COMPLETED, 100>>

FallbackClip == [slide_number |-> 1, path |-> IntroPath]

\* the run holds the audio list it hands to composition
BeforeCompose(rec) == rec.pc \in {"compose_start", "compose"}

IntroCalled(rec, outcome) ==
    \E i \in DOMAIN rec.calls : rec.calls[i] = <<"intro", outcome>>

\* C10 as claimed: when synthesis yields no clip for a non-empty slide list,
\* composition is handed exactly the fallback clip, keyed to slide 1; when it
\* yields a clip, the list is handed over unchanged; so composition never gets an
\* empty audio list when slides exist.
C10_FallbackAlwaysInjected ==
    \A r \in RunIds :
        LET rec == runs[r]
        IN BeforeCompose(rec) /\ rec.slides # <<>> =>
             /\ rec.synth = <<>> => rec.audio_files = <<FallbackClip>>
             /\ rec.synth # <<>> => rec.audio_files = rec.synth
             /\ rec.audio_files # <<>>

\* C10 as amended: when synthesis yields no clip for a non-empty slide list, the
\* fallback sentence is synthesised and, if that succeeds, composition is handed
\* exactly the fallback clip, keyed to slide 1; if it fails too, composition is
\* handed the empty list.  When synthesis yields a clip, the list is handed over
\* unchanged and no fallback is synthesised.
C10_FallbackInjectedIfSynthesised ==
    \A r \in RunIds :
        LET rec == runs[r]
        IN BeforeCompose(rec) /\ rec.slides # <<>> =>
             /\ rec.synth = <<>> /\ IntroCalled(rec, "ok") =>
                  rec.audio_files = <<FallbackClip>>
             /\ rec.synth = <<>> /\ ~IntroCalled(rec, "ok") =>
                  rec.audio_files = <<>> /\ IntroCalled(rec, "fail")
             /\ rec.synth # <<>> =>
                  /\ rec.audio_files = rec.synth
                  /\ ~IntroCalled(rec, "ok") /\ ~IntroCalled(rec, "fail")

C10_Witness ==
    \E r \in RunIds :
        /\ runs[r].pc = "compose"
        /\ Len(runs[r].slides) > 1
        /\ runs[r].synth = <<>>
        /\ runs[r].audio_files = <<FallbackClip>>

\* C11: the slide list that reaches slide rendering is never empty.
C11_SlidesNeverEmpty ==
    \A r \in RunIds :
        runs[r].pc \in {"slides_start", "slides"} => runs[r].slides # <<>>

\* a call of create_slideshow_video that has returned, or ended either way
Returned == call.fn = "create_slideshow_video" /\ call.pc = "returned"

Ended == call.fn = "create_slideshow_video" /\ call.pc \in {"returned", "raised"}

SlideCount == Len(call.slide_images)

\* the encode calls made for the slide at position i
EncodesOf(i) == SelectSeq(call.encodes, LAMBDA e : e.slide = i)

\* the slides no encode call of which succeeded
FailedSlides ==
    {i \in 1..SlideCount : \A x \in DOMAIN call.encodes :
                              call.encodes[x].slide = i => ~call.encodes[x].ok}

SilentEncode(i, ok) ==
    [ fn |-> "create_slide_video_no_audio", slide |-> i, audio |-> None,
      duration |-> 50, ok |-> ok ]

\* C12: with N >= 1 slide images and an empty audio list, when every encode
\* succeeds, exactly N silent segments of 5.0 s are requested, one per slide in
\* order, exactly those N are concatenated, and the result is a success with
\* slide_count N.
C12_SilentSlideshow ==
    /\ Returned
    /\ SlideCount >= 1
    /\ call.audio_files = <<>>
    /\ \A x \in DOMAIN call.encodes : call.encodes[x].ok
    /\ call.env.concat
    => /\ call.encodes = [i \in 1..SlideCount |-> SilentEncode(i, TRUE)]
       /\ call.concat = Some([i \in 1..SlideCount |-> [slide |-> i, audio |-> None]])
       /\ call.result.success
       /\ call.result.slide_count = SlideCount

C12_Witness ==
    /\ Returned
    /\ SlideCount >= 2
    /\ call.audio_files = <<>>
    /\ Len(call.encodes) = SlideCount
    /\ call.result.success
    /\ call.result.slide_count = SlideCount

\* C13: when exactly one of N > 1 slides produces no segment and the
\* concatenation works, the result is a success over the other N-1 segments; when
\* no slide produces a segment the result is the failure "No slide videos
\* created" and the concatenation is never invoked.
C13_PartialFailure ==
    Returned =>
      /\ SlideCount > 1 /\ Cardinality(FailedSlides) = 1 /\ call.env.concat =>
           /\ call.result.success
           /\ call.result.slide_count = SlideCount - 1
           /\ call.concat # NoList
           /\ Len(call.concat[1]) = SlideCount - 1
           /\ {call.concat[1][x].slide : x \in DOMAIN call.concat[1]}
                 = (1..SlideCount) \ FailedSlides
      /\ SlideCount >= 1 /\ FailedSlides = 1..SlideCount =>
           /\ ~call.result.success
           /\ call.result.error = "No slide videos created"
           /\ call.concat = NoList

C13_Witness ==
    /\ Returned
    /\ SlideCount > 1
    /\ Cardinality(FailedSlides) = 1
    /\ call.result.success
    /\ call.result.slide_count = SlideCount - 1

\* C14: a slide one of whose encode invocations fails is dropped: no segment of
\* that slide is in the list given to the concatenation.
C14_FailedEncodeDropsSlide ==
    Returned =>
      \A x \in DOMAIN call.encodes :
         ~call.encodes[x].ok =>
            \A y \in DOMAIN call.segments :
               call.segments[y].slide # call.encodes[x].slide

\* the clips of the audio list that carry slide_number i
ClipsFor(i) ==
    {call.audio_files[x] : x \in {y \in DOMAIN call.audio_files :
                                     call.audio_files[y].slide_number = i}}

\* the clip has a path and its file exists and is not empty
Usable(clip) == Truthy(clip.path) /\ clip.path \in call.env.files

\* C15: the audio given to the encode of the slide at position i is that of a
\* clip whose slide_number is i, whatever the order and length of the audio list,
\* and of the one such clip when it is usable; a slide with no usable clip of its
\* number gets one silent encode of 5.0 s and no audio-backed encode.
C15_AudioMatchedBySlideNumber ==
    Returned =>
      \A i \in 1..SlideCount :
         LET calls == EncodesOf(i)
         IN /\ \A x \in DOMAIN calls :
                  calls[x].fn = "create_slide_video" =>
                     \E clip \in ClipsFor(i) : calls[x].audio = clip.path
            /\ \A clip \in ClipsFor(i) :
                  ClipsFor(i) = {clip} /\ Usable(clip) =>
                     /\ calls[1].fn = "create_slide_video"
                     /\ calls[1].audio = clip.path
            /\ (\A clip \in ClipsFor(i) : ~Usable(clip)) =>
                  calls = << SilentEncode(i, i \in call.env.silent_enc) >>

C15_Witness ==
    /\ Returned
    /\ SlideCount = 2
    /\ call.audio_files = << [slide_number |-> 2, path |-> ClipPath(1),
                              duration |-> EstimatedSeconds] >>
    /\ call.encodes = << SilentEncode(1, TRUE),
                         [ fn |-> "create_slide_video", slide |-> 2,
                           audio |-> ClipPath(1), duration |-> 305, ok |-> TRUE ] >>

\* C16: when create_slideshow_video returns or raises, the directory temp_videos
\* and every segment file in it no longer exist.
C16_TempDirRemoved ==
    Ended => call.disk \cap TempTree(call.slide_images) = {}

C16_Witness ==
    /\ call.fn = "create_slideshow_video"
    /\ call.pc = "raised"
    /\ SegmentPath(1) \in call.made
    /\ SegmentPath(1) \notin call.disk

\* C17: a job whose persisted status is COMPLETED has no error_message and has a
\* video_path.
C17_CompletedHasNoError ==
    \A j \in DOMAIN store :
        store[j].status = COMPLETED =>
           /\ store[j].error_message = None
           /\ store[j].video_path # None

Wrote(r, status, progress) ==
    \E i \in DOMAIN runs[r].writes : runs[r].writes[i] = <<status, progress>>

\* the artifacts that the progress value of job j promises are all those of run r
OwnsArtifacts(r, j) ==
    LET row == store[j]
    IN /\ runs[r].job = j
       /\ row.progress >= 15 => row.extracted = Some(<<"text of run", r>>)
       /\ row.progress >= 35 =>
             Wrote(r, GENERATING_SCRIPT, 35) /\ row.slide_script # NoList
       /\ row.progress >= 55 =>
             Wrote(r, GENERATING_SLIDES, 55) /\ row.slide_images # NoList
       /\ row.progress = 100 => Wrote(r, COMPLETED, 100) /\ row.video_path # None

\* C18: the progress value of a job record is never paired with artifacts that do
\* not belong to it: from 15 on the extracted text, from 35 on the slide_script,
\* from 55 on the slide_images and at 100 the video_path are present and are those
\* of one and the same run, the one that persisted the progress value.
C18_ProgressMatchesArtifacts ==
    \A j \in DOMAIN store :
        store[j].progress >= 15 => \E r \in RunIds : OwnsArtifacts(r, j)

\* the paths a job record publishes
Published(row) ==
    (IF row.slide_images = NoList THEN {}
     ELSE {row.slide_images[1][x] : x \in DOMAIN row.slide_images[1]})
      \cup (IF row.video_path = None THEN {} ELSE {row.video_path})

C20_NoExceptionEscapes ==
    [][\A r \in RunIds :
          LET rec == runs'[r]
          IN /\ runs[r].pc \notin {"none", "done", "raised"}
             /\ rec.pc \in {"done", "raised"}
             /\ ~rec.result.success
             /\ rec.job \in DOMAIN store
             => /\ rec.pc = "done"
                /\ Truthy(rec.result.error)
                /\ store'[rec.job].status = FAILED
                /\ store'[rec.job].progress = 0
                /\ Truthy(store'[rec.job].error_message)]_vars


\* no other run of the job was ever scheduled beside run r
Alone(r) == \A q \in RunIds \ {r} : runs[q].pc = "none"

\* C21: every process_job run started on an existing job eventually ends, and
\* when it has ended with no other run or retry scheduled beside it the job's
\* persisted status is COMPLETED or FAILED.
C21_RunEndsTerminal ==
    /\ \A r \in FirstRun : (runs[r].pc = "queued") ~> (runs[r].pc = "done")
    /\ [](\A r \in FirstRun :
             runs[r].pc = "done" /\ Alone(r) =>
                store[runs[r].job].status \in {COMPLETED, FAILED})


\* the row of job_id after updates[1..i] are committed to a jobs table that
\* holds no other row
RECURSIVE RowAlone(_, _, _, _)
RowAlone(job_id, row, updates, i) ==
    IF i = 0 THEN row
    ELSE Commit([j \in {job_id} |-> RowAlone(job_id, row, updates, i - 1)],
                job_id, updates[i])[job_id]

\* run r is the one run ever scheduled for its job
OnlyRunOfJob(rs, r) ==
    /\ rs[r].pc # "none"
    /\ \A q \in RunIds \ {r} : rs[q].pc # "none" => rs[q].job # rs[r].job

\* C22: runs of two distinct jobs interleaved in any order do not affect each
\* other: a step of a run for job A leaves every field of every other job record
\* unchanged, and the record of A is after every step, the last one included, the
\* record that the updates of its run give when they are committed alone.
C22_JobsIndependent ==
    [][\A r \in RunIds :
          runs'[r] # runs[r] /\ runs[r].pc # "none" =>
             /\ \A b \in DOMAIN store \ {runs[r].job} : store'[b] = store[b]
             /\ OnlyRunOfJob(runs', r) =>
                   store'[runs[r].job] =
                      RowAlone(runs[r].job,
                               NewJob(store[runs[r].job].avatar_option),
                               runs'[r].updates, Len(runs'[r].updates))]_vars

C22_Witness ==
    \E r, q \in RunIds :
        /\ runs[r].job = "j1" /\ runs[q].job = "j2"
        /\ runs[r].pc = "done" /\ runs[q].pc = "done"
        /\ OnlyRunOfJob(runs, r) /\ OnlyRunOfJob(runs, q)
        /\ store["j1"].status = COMPLETED
        /\ store["j2"].status = FAILED
        /\ Len(runs[q].writes) > 2


\* C23: an encode invocation of the composer that exits with 0 and leaves no
\* output file is a failure of its unit: no segment of a slide whose file was not
\* written is in the list given to the concatenation, and a concatenation whose
\* output file was not written returns success = false.
C23_MissingOutputIsFailure ==
    Returned =>
      /\ \A y \in DOMAIN call.segments :
            SegmentPath(call.segments[y].slide) \in call.made
      /\ call.result.success => VideoPath \in call.made


\* the stage functions a run has invoked, in order; the synthesis of the
\* placeholder sentence belongs to the audio step
StageCalls(rec) ==
    LET stages == SelectSeq(rec.calls, LAMBDA c : c[1] # "intro")
    IN [i \in DOMAIN stages |-> stages[i][1]]

\* C24: a run in which every stage succeeds persists exactly the checkpoints
\* (PARSING,5), (PARSING,15), (GENERATING_SCRIPT,20), (GENERATING_SCRIPT,35),
\* (GENERATING_SLIDES,40), (GENERATING_SLIDES,55), (GENERATING_AUDIO,60),
\* (GENERATING_AUDIO,75), (COMPOSING_VIDEO,80), then (COMPOSING_VIDEO,90) if and
\* only if the avatar option is not "none", then (COMPLETED,100), in this order,
\* and invokes each stage function exactly once, in the order of the stages.
C24_CheckpointOrder ==
    \A r \in RunIds :
        LET rec == runs[r]
            avatar == store[rec.job].avatar_option # "none"
        IN rec.pc = "done" /\ rec.result.success =>
             /\ rec.writes =
                   << <<PARSING, 5>>, <<PARSING, 15>>,
                      <<GENERATING_SCRIPT, 20>>, <<GENERATING_SCRIPT, 35>>,
                      <<GENERATING_SLIDES, 40>>, <<GENERATING_SLIDES, 55>>,
                      <<GENERATING_AUDIO, 60>>, <<GENERATING_AUDIO, 75>>,
                      <<COMPOSING_VIDEO, 80>> >>
                    \o (IF avatar THEN << <<COMPOSING_VIDEO, 90>> >> ELSE <<>>)
                    \o << <<COMPLETED, 100>> >>
             /\ StageCalls(rec) =
                   <<"parse", "script", "render", "tts", "compose">>
                    \o (IF avatar THEN <<"avatar">> ELSE <<>>)

C24_Witness ==
    \E r \in RunIds :
        /\ runs[r].pc = "done"
        /\ runs[r].result.success
        /\ store[runs[r].job].avatar_option = "svg"
        /\ Len(runs[r].writes) = 11
        /\ Len(StageCalls(runs[r])) = 6


\* C25: in every state of a job record, across runs and retries, whenever
\* slide_script and slide_images are both present they have the same length and
\* slide_images[i] is the image of position i, the one rendered from
\* slide_script[i].
C25_ImagesMatchScript ==
    \A j \in DOMAIN store :
        LET row == store[j]
        IN row.slide_script # NoList /\ row.slide_images # NoList =>
             /\ Len(row.slide_images[1]) = Len(row.slide_script[1])
             /\ \A i \in DOMAIN row.slide_images[1] :
                   row.slide_images[1][i] = SlideImagePath(i)


\* C26: in every state a job's error_message is set only while its status is
\* FAILED: no job in PENDING, in an in-progress stage or in COMPLETED carries an
\* error_message.
C26_ErrorOnlyWhileFailed ==
    \A j \in DOMAIN store :
        store[j].error_message # None => store[j].status = FAILED


\* C27: create_slideshow_video makes at most one encode invocation per slide, so
\* that a failed invocation is never attempted again in another form, and every
\* successful composition has made one concatenation.
C27_OneEncodePerSlide ==
    Returned =>
      /\ \A i \in 1..SlideCount : Len(EncodesOf(i)) <= 1
      /\ call.result.success => call.concat # NoList


\* C28: every segment encode is bounded by a timeout: when the external tool
\* never exits during the encode of a slide, the encodes of that slide are
\* reported as failed and create_slideshow_video still ends.
C28_EncodesTimeOut ==
    /\ call.fn = "create_slideshow_video"
    /\ call.pc # "called"
    /\ call.env.stuck # 0
    => /\ Ended
       /\ \A x \in DOMAIN call.encodes :
             call.encodes[x].slide = call.env.stuck => ~call.encodes[x].ok


\* C29: the segments given to the concatenation are a subsequence of the slides
\* in their original order: they are in increasing slide position, each slide
\* has at most one segment, and the list file of the concatenation names the
\* segment files in that same order.
C29_SegmentsInSlideOrder ==
    Returned /\ call.concat # NoList =>
      LET video_files == call.concat[1]
      IN /\ \A x \in DOMAIN video_files : video_files[x].slide \in 1..SlideCount
         /\ \A x, y \in DOMAIN video_files :
               x < y => video_files[x].slide < video_files[y].slide
         /\ Len(call.list) = Len(video_files)
         /\ \A x \in DOMAIN video_files :
               call.list[x] = "file '" \o SegmentPath(video_files[x].slide) \o "'"

C29_Witness ==
    /\ Returned
    /\ SlideCount = 2
    /\ call.concat # NoList
    /\ call.list = << "file 'temp_videos/slide_0.mp4'", "file 'temp_videos/slide_1.mp4'" >>
    /\ call.concat[1][1].audio = None
    /\ call.concat[1][2].audio # None


ParserError(rec) == \E i \in DOMAIN rec.calls : rec.calls[i] = <<"parse", "error">>

\* the diagnostics a parser result may carry
Diagnostics ==
    {out.error : out \in {o \in ParseOutcomes(TRUE) :
                             o.kind = "return" /\ Truthy(o.error)}}

\* C31: when the parser returns a non-empty error, the run ends in FAILED with
\* an error_message that contains the parser's diagnostic; the checkpoint
\* (PARSING,15) and the extracted content are never persisted, and the script,
\* slide, audio and composition stages are not invoked.
C31_ParserErrorFailsRun ==
    [][\A r \in RunIds :
          LET rec == runs'[r]
          IN ParserError(rec) =>
               /\ rec.pc = "done"
               /\ ~rec.result.success
               /\ rec.calls = << <<"parse", "error">> >>
               /\ rec.writes = << <<PARSING, 5>>, <<FAILED, 0>> >>
               /\ \A i \in DOMAIN rec.updates :
                     "extracted" \notin DOMAIN rec.updates[i].kwargs
               /\ runs[r].pc # "done" =>
                    /\ store'[rec.job].status = FAILED
                    /\ \E d \in Diagnostics :
                          /\ store'[rec.job].error_message
                                = "Failed to parse document: " \o d
                          /\ rec.result.error = store'[rec.job].error_message
                    /\ store'[rec.job].extracted = NoList]_vars

C31_Witness ==
    \E r \in RunIds :
        /\ runs[r].pc = "done"
        /\ ParserError(runs[r])
        /\ store[runs[r].job].status = FAILED
        /\ store[runs[r].job].error_message = "Failed to parse document: corrupt document"
        /\ store[runs[r].job].extracted = NoList
        /\ store[runs[r].job].slide_script = NoList


\* a call of update_job_status that has returned
Updated == call.fn = "update_job_status" /\ call.pc = "returned"

\* the columns a call names: status always, the others when an argument is given
Passed(u) ==
    {"status"} \cup (IF u.progress # NoInt THEN {"progress"} ELSE {})
               \cup (IF u.message # None THEN {"status_message"} ELSE {})
               \cup (IF u.error # None THEN {"error_message"} ELSE {})
               \cup DOMAIN u.kwargs

\* C32: update_job_status is a partial update: it changes only status and the
\* fields explicitly passed.  A call without an error argument leaves
\* error_message as it was, a call without a message leaves status_message as it
\* was, artifact fields not passed keep their values, and the fields passed in
\* the keyword arguments and the status take the values passed.
C32_PartialUpdate ==
    Updated =>
      LET u == call.update
      IN /\ DOMAIN store = DOMAIN call.before
         /\ \A j \in DOMAIN store \ {call.job_id} : store[j] = call.before[j]
         /\ call.job_id \in DOMAIN store =>
               LET old == call.before[call.job_id]
                   new == store[call.job_id]
               IN /\ DOMAIN new = DOMAIN old
                  /\ \A f \in DOMAIN old : new[f] # old[f] => f \in Passed(u)
                  /\ u.error = None => new.error_message = old.error_message
                  /\ u.message = None => new.status_message = old.status_message
                  /\ new.status = u.status
                  /\ u.progress # NoInt => new.progress = u.progress
                  /\ \A f \in DOMAIN u.kwargs : new[f] = u.kwargs[f]

C32_Witness ==
    /\ Updated
    /\ call.job_id = "j1"
    /\ call.before["j1"] = FailedRow
    /\ call.update.error = None /\ call.update.message = None
    /\ call.update.status = PARSING
    /\ DOMAIN call.update.kwargs = {"slide_images"}
    /\ store["j1"].status = PARSING
    /\ store["j1"].error_message = FailedRow.error_message
    /\ store["j1"].status_message = "Job failed"
    /\ store["j1"].slide_script = FailedRow.slide_script
    /\ store["j1"].slide_images # FailedRow.slide_images


\* the progress values that may accompany a status
ProgressOf(status) ==
    CASE status = PENDING -> {0}
      [] status = PARSING -> {5, 15}
      [] status = GENERATING_SCRIPT -> {20, 35}
      [] status = GENERATING_SLIDES -> {40, 55}
      [] status = GENERATING_AUDIO -> {60, 75}
      [] status = COMPOSING_VIDEO -> {80, 90}
      [] status = COMPLETED -> {100}
      [] status = FAILED -> {0}

\* C33: in every reachable state the persisted status and progress are paired
\* consistently: PENDING with 0, PARSING with 5 or 15, GENERATING_SCRIPT with 20
\* or 35, GENERATING_SLIDES with 40 or 55, GENERATING_AUDIO with 60 or 75,
\* COMPOSING_VIDEO with 80 or 90, COMPLETED with 100 and FAILED with 0.
C33_StatusProgressPaired ==
    \A j \in DOMAIN store : store[j].progress \in ProgressOf(store[j].status)


\* the speech synthesis of the run has returned
Synthesised(rec) == \E i \in DOMAIN rec.calls : rec.calls[i] = <<"tts", "return">>

\* C34: a speech-synthesis failure or skip for an individual slide never fails
\* the job.  generate_slide_audio reports success whatever the slides for which
\* the engine works; the list it returns holds one clip for each slide that was
\* synthesised and none for a slide that failed or was skipped, each clip with
\* the slide_number and the file of its slide, in slide order; and the step of
\* the run that gets the list persists (GENERATING_AUDIO,75) and goes on to
\* composition.
C34_SlideAudioFailureTolerated ==
    /\ [](\A r \in RunIds :
             runs[r].pc = "audio" =>
                \A voiced \in SUBSET (1..Len(runs[r].slides)) :
                   LET result == GenerateSlideAudio(runs[r].slides, voiced)
                       clips == result.audio_files
                   IN /\ result.success
                      /\ {clips[x].slide_number : x \in DOMAIN clips}
                            = {i \in voiced : runs[r].slides[i].narration >= MinTtsChars}
                      /\ \A x, y \in DOMAIN clips :
                            x < y => clips[x].slide_number < clips[y].slide_number
                      /\ \A x \in DOMAIN clips :
                            clips[x].path = SlideAudioPath(clips[x].slide_number))
    /\ [][\A r \in RunIds :
             runs[r].pc = "audio" /\ Synthesised(runs'[r]) =>
                LET rec == runs'[r]
                IN /\ rec.pc = "compose_start"
                   /\ Last(rec.writes) = <<GENERATING_AUDIO, 75>>
                   /\ store'[rec.job].status = GENERATING_AUDIO
                   /\ store'[rec.job].progress = 75
                   /\ \A x \in DOMAIN rec.synth :
                         /\ rec.synth[x].slide_number \in DOMAIN rec.slides
                         /\ rec.slides[rec.synth[x].slide_number].narration >= MinTtsChars
                         /\ rec.synth[x].path = SlideAudioPath(rec.synth[x].slide_number)]_vars

C34_Witness ==
    \E r \in RunIds :
        /\ runs[r].pc = "compose"
        /\ Len(runs[r].slides) = 2
        /\ runs[r].slides[1].narration >= MinTtsChars
        /\ runs[r].synth = << [slide_number |-> 2, path |-> SlideAudioPath(2)] >>
        /\ runs[r].audio_files = runs[r].synth
        /\ store[runs[r].job].status = COMPOSING_VIDEO


\* C35: process_job called with a job ID that has no record returns the failure
\* "Job not found" without writing anything to the job store, without creating
\* the job output directory and without invoking any stage function.
C35_MissingJobNotFound ==
    [][\A r \in RunIds :
          /\ runs[r].pc = "queued"
          /\ runs'[r] # runs[r]
          /\ runs[r].job \notin DOMAIN store
          => /\ runs'[r].pc = "done"
             /\ runs'[r].result = [NoResult EXCEPT !.error = "Job not found"]
             /\ runs'[r].writes = <<>>
             /\ runs'[r].updates = <<>>
             /\ runs'[r].calls = <<>>
             /\ runs'[r].files = {}
             /\ store' = store]_vars

C35_Witness ==
    \E r \in RunIds :
        /\ runs[r].pc = "done"
        /\ runs[r].result.error = "Job not found"
        /\ runs[r].writes = <<>>
        /\ runs[r].files = {}
        /\ runs[r].job \notin DOMAIN store


\* C38: after delete_job succeeds for a job, no record for that job exists in
\* the store in any later state: the deletion removes the row, a job without a
\* row never gets one again, and the steps a still-running process_job takes
\* afterwards, status updates included, leave the store as it is.
C38_DeletedStaysDeleted ==
    [][/\ \A j \in JobIds :
             \/ j \notin DOMAIN store
             \/ resp'.op = "delete" /\ resp'.job = j /\ resp'.code = 200
             => j \notin DOMAIN store'
       /\ \A r \in RunIds :
             runs[r].job \notin DOMAIN store /\ runs'[r].writes # runs[r].writes
                => store' = store]_vars

C38_Witness ==
    \E r \in RunIds :
        /\ resp = Response("delete", "j1", 200, "Job deleted successfully")
        /\ runs[r].job = "j1"
        /\ "j1" \notin DOMAIN store
        /\ runs[r].pc = "done"
        /\ Wrote(r, COMPLETED, 100)
        /\ JobDir \notin runs[r].files
        /\ SlideImagePath(1) \in runs[r].files


\* what the outside world does during a composition in which nothing raises and
\* every invocation of the tool exits
Uneventful(env) ==
    [f \in DOMAIN env \cup {"raises", "stuck"} |->
        IF f \in DOMAIN env THEN env[f] ELSE 0]

\* C36: create_slideshow_video called with an empty slide image list returns
\* the failure "No slide videos created" without invoking any encode or
\* concatenation, and the orchestrator turns it into a FAILED job, with progress
\* 0 and that diagnostic, rather than a COMPLETED job with no video.
C36_EmptySlideListFailsJob ==
    /\ [](\A r \in RunIds :
             runs[r].pc = "compose" /\ runs[r].slide_images = <<>> =>
                \A env \in ComposeEnvs(TRUE, 0, runs[r].audio_files) :
                   LET c == CreateSlideshowVideoCall(
                               SlideshowCall(<<>>, runs[r].audio_files, Uneventful(env)))
                   IN /\ c.pc = "returned"
                      /\ c.result = [NoResult EXCEPT !.error = "No slide videos created"]
                      /\ c.encodes = <<>>
                      /\ c.concat = NoList
                      /\ c.list = <<>>
                      /\ env.ffmpeg =>
                            ComposeVideo(<<>>, runs[r].audio_files, VideoPath, env)
                               = c.result)
    /\ [][\A r \in RunIds :
             /\ runs[r].pc = "compose"
             /\ runs[r].slide_images = <<>>
             /\ runs'[r] # runs[r]
             => LET rec == runs'[r]
                    row == store'[rec.job]
                IN /\ rec.pc = "done"
                   /\ ~rec.result.success
                   /\ Last(rec.calls) = <<"compose", "fail">>
                   /\ Last(rec.writes) = <<FAILED, 0>>
                   /\ row.status = FAILED
                   /\ row.progress = 0
                   /\ row.error_message
                         \in {"Failed to compose video: No slide videos created",
                              "Failed to compose video: FFmpeg not found. Please install FFmpeg."}
                   /\ row.error_message = rec.result.error
                   /\ row.video_path = None]_vars

C36_Witness ==
    \E r \in RunIds :
        /\ runs[r].pc = "done"
        /\ Len(runs[r].calls) > 0
        /\ Last(runs[r].calls) = <<"compose", "fail">>
        /\ store[runs[r].job].slide_images = Some(<<>>)
        /\ store[runs[r].job].status = FAILED
        /\ store[runs[r].job].error_message
              = "Failed to compose video: No slide videos created"
        /\ store[runs[r].job].video_path = None


\* the positions in the audio list of the clips that carry slide_number i
PositionsFor(i) ==
    {x \in DOMAIN call.audio_files : call.audio_files[x].slide_number = i}

\* the audio list without the clips that have no slide_number or one beyond the
\* slides
InRange(audio_files, n) ==
    SelectSeq(audio_files, LAMBDA clip : clip.slide_number \in 1..n)

\* C37: when the audio list holds several clips with the same slide_number, the
\* last of them in the list is the one used for that slide: its file is the
\* audio of the slide's audio-backed encode when it is usable, and when it is not
\* the slide is encoded silent, whatever the earlier clips of that number.  A
\* clip with no slide_number, or with one outside 1..N, is never the audio of an
\* encode and causes no failure: the call returns, with the encodes, the
\* concatenation and the result it has without those clips.
C37_LastClipWins ==
    Returned =>
      /\ \A i \in 1..SlideCount :
            PositionsFor(i) # {} =>
               LET last == call.audio_files[MaxOf(PositionsFor(i))]
                   calls == EncodesOf(i)
               IN /\ Usable(last) =>
                        /\ calls[1].fn = "create_slide_video"
                        /\ calls[1].audio = last.path
                  /\ ~Usable(last) =>
                        calls = << SilentEncode(i, i \in call.env.silent_enc) >>
                  /\ \A x \in DOMAIN calls :
                        calls[x].fn = "create_slide_video" => calls[x].audio = last.path
      /\ \A y \in DOMAIN call.audio_files :
            call.audio_files[y].slide_number \notin 1..SlideCount =>
               \A x \in DOMAIN call.encodes :
                  call.encodes[x].audio # ClipPath(y)
      /\ LET c == CreateSlideshowVideoCall(
                     SlideshowCall(call.slide_images,
                                   InRange(call.audio_files, SlideCount), call.env))
         IN /\ c.pc = "returned"
            /\ c.encodes = call.encodes
            /\ c.concat = call.concat
            /\ c.result = call.result

C37_Witness ==
    /\ Returned
    /\ SlideCount = 2
    /\ call.audio_files = << [slide_number |-> 2, path |-> ClipPath(1),
                              duration |-> EstimatedSeconds],
                             [slide_number |-> 2, path |-> ClipPath(2),
                              duration |-> EstimatedSeconds] >>
    /\ call.env.files = {ClipPath(1), ClipPath(2)}
    /\ call.result.success
    /\ call.encodes = << SilentEncode(1, TRUE),
                         [ fn |-> "create_slide_video", slide |-> 2,
                           audio |-> ClipPath(2), duration |-> 305, ok |-> TRUE ] >>

====
